---- MODULE Spec2Model ----
(***************************************************************************)
(* Model of hive-scout-bee: the SignatureExtractor (statistical signature  *)
(* of a window of RDF quads) and the HiveScoutBee approach selector (a     *)
(* registry of approach configurations matched against that signature).   *)
(*                                                                         *)
(* JavaScript numbers are modelled as extended rationals <<n, d>>:         *)
(*   d > 0        the finite number n/d, in lowest terms                   *)
(*   <<1, 0>>     +Infinity      <<-1, 0>>  -Infinity      <<0, 0>>  NaN   *)
(* Arithmetic on finite values is exact; Math.sqrt and Math.log2 are       *)
(* computed on a binary grid (see Sqrt, Log2).  The sign of zero is not    *)
(* modelled.                                                               *)
(***************************************************************************)
EXTENDS Integers, Sequences, FiniteSets, TLC

\* approachConfigs  the registry: the entries of the Map in iteration order
\* lastCall         the last call made on the instance: [op, arg, ret]
\* registered       history: for each name, the configuration of its latest
\*                  registration not followed by a removal (else undefined)
\* repeated         history: whether the last call repeated the chooseApproach
\*                  call before it on the same window, and with which outcome
\*                  ("no", "same" result, "different" result)
\* log              history: the calls made on the instance so far, the
\*                  constructor call first, when the instance is observed
\*                  (else undefined)
VARIABLES approachConfigs, lastCall, registered, repeated, log

vars == <<approachConfigs, lastCall, registered, repeated, log>>

\* ------------------------------------------------------------------------
\* JavaScript numbers
\* ------------------------------------------------------------------------

Abs(i) == IF i < 0 THEN -i ELSE i

Sign(i) == IF i < 0 THEN -1 ELSE IF i > 0 THEN 1 ELSE 0

RECURSIVE Gcd(_, _)
Gcd(a, b) == IF b = 0 THEN a ELSE Gcd(b, a % b)

\* The number n/d in canonical form (d = 0 gives an infinity or NaN).
Norm(n, d) ==
    IF d = 0 THEN <<Sign(n), 0>>
    ELSE LET g == Gcd(Abs(n), Abs(d))
         IN  <<Sign(d) * (n \div g), Abs(d) \div g>>

NaN == <<0, 0>>
PosInf == <<1, 0>>
NegInf == <<-1, 0>>
Num(i) == <<i, 1>>
Frac(n, d) == Norm(n, d)

IsNaN(x) == x = NaN
IsFinite(x) == x[2] > 0

Neg(x) == <<-x[1], x[2]>>

\* x + y
Add(x, y) ==
    IF IsNaN(x) \/ IsNaN(y) THEN NaN
    ELSE IF ~IsFinite(x) /\ ~IsFinite(y) THEN (IF x = y THEN x ELSE NaN)
    ELSE IF ~IsFinite(x) THEN x
    ELSE IF ~IsFinite(y) THEN y
    ELSE LET g == Gcd(x[2], y[2])
         IN  Norm(x[1] * (y[2] \div g) + y[1] * (x[2] \div g), (x[2] \div g) * y[2])

\* x - y
Sub(x, y) == Add(x, Neg(y))

\* x * y
Mul(x, y) ==
    IF IsFinite(x) /\ IsFinite(y)
    THEN LET g1 == Gcd(Abs(x[1]), y[2])
             g2 == Gcd(Abs(y[1]), x[2])
         IN  Norm((x[1] \div g1) * (y[1] \div g2), (x[2] \div g2) * (y[2] \div g1))
    ELSE <<Sign(x[1]) * Sign(y[1]), 0>>

\* 1 / x  (1/0 is +Infinity: the sign of zero is not modelled)
Recip(x) ==
    IF IsNaN(x) THEN NaN
    ELSE IF ~IsFinite(x) THEN Num(0)
    ELSE IF x[1] = 0 THEN PosInf
    ELSE <<Sign(x[1]) * x[2], Abs(x[1])>>

\* x / y
Div(x, y) ==
    IF IsFinite(x) /\ IsFinite(y) /\ x[1] = 0 /\ y[1] = 0 THEN NaN
    ELSE IF ~IsFinite(x) /\ ~IsFinite(y) THEN NaN
    ELSE Mul(x, Recip(y))

\* x < y  (false when either is NaN)
Lt(x, y) ==
    IF IsNaN(x) \/ IsNaN(y) THEN FALSE
    ELSE IF ~IsFinite(x) \/ ~IsFinite(y)
         THEN (IF ~IsFinite(x) /\ ~IsFinite(y) THEN x[1] < y[1]
               ELSE IF ~IsFinite(x) THEN x[1] < 0
               ELSE y[1] > 0)
    ELSE LET g == Gcd(x[2], y[2])
         IN  x[1] * (y[2] \div g) < y[1] * (x[2] \div g)

\* x > y, x <= y, x >= y  (false when either is NaN)
Gt(x, y) == Lt(y, x)
Le(x, y) == ~IsNaN(x) /\ ~IsNaN(y) /\ ~Lt(y, x)
Ge(x, y) == Le(y, x)

\* Math.abs, Math.max, Math.min
MathAbs(x) == <<Abs(x[1]), x[2]>>
MathMax(x, y) == IF IsNaN(x) \/ IsNaN(y) THEN NaN ELSE IF Lt(x, y) THEN y ELSE x
MathMin(x, y) == IF IsNaN(x) \/ IsNaN(y) THEN NaN ELSE IF Lt(y, x) THEN y ELSE x

RECURSIVE Pow2(_)
Pow2(k) == IF k = 0 THEN 1 ELSE 2 * Pow2(k - 1)

\* The largest integer r with r * r <= n, by bisection on lo..hi.
RECURSIVE IsqrtIn(_, _, _)
IsqrtIn(n, lo, hi) ==
    IF lo >= hi THEN lo
    ELSE LET mid == (lo + hi + 1) \div 2
         IN  IF mid * mid <= n THEN IsqrtIn(n, mid, hi) ELSE IsqrtIn(n, lo, mid - 1)

Isqrt(n) == IsqrtIn(n, 0, IF n < 46340 THEN n ELSE 46340)

IsSquare(n) == Isqrt(n) * Isqrt(n) = n

\* Significant bits kept by the model of Math.sqrt for an irrational root.
SqrtBits == 8

\* The integer e with 2^e <= n/d < 2^(e+1), for n, d > 0.
RECURSIVE FloorLog2(_, _)
FloorLog2(n, d) ==
    IF n < d THEN FloorLog2(2 * n, d) - 1
    ELSE IF n >= 2 * d THEN FloorLog2(n, 2 * d) + 1
    ELSE 0

\* floor(sqrt(a / b) * g); an argument too wide for the integer arithmetic
\* is first cut to the leading bits that fit.
RECURSIVE SqrtScaled(_, _, _)
SqrtScaled(a, b, g) ==
    IF a <= 2147483647 \div (g * g) THEN Isqrt((a * g * g) \div b)
    ELSE IF b >= 2 THEN SqrtScaled(a \div 2, b \div 2, g)
    ELSE Isqrt(a) * g

\* Math.sqrt: exact when the root is rational, otherwise rounded down to
\* SqrtBits significant bits (a multiple of 2^-shift).
Sqrt(x) ==
    IF IsNaN(x) \/ x[1] < 0 THEN NaN
    ELSE IF ~IsFinite(x) THEN PosInf
    ELSE IF IsSquare(x[1]) /\ IsSquare(x[2]) THEN <<Isqrt(x[1]), Isqrt(x[2])>>
    ELSE LET e == FloorLog2(x[1], x[2])
             half == IF e >= 0 THEN e \div 2 ELSE -((1 - e) \div 2)
             shift == SqrtBits - 1 - half
         IN  IF shift >= 0
             THEN Norm(SqrtScaled(x[1], x[2], Pow2(shift)), Pow2(shift))
             ELSE Num((Isqrt(x[1] \div x[2]) \div Pow2(-shift)) * Pow2(-shift))

\* Fractional bits produced by the model of Math.log2, and the fixed-point
\* width of the mantissa it squares.
LogBits == 8
LogMantissaBits == 14

\* The first `bits` fractional binary digits of log2(m / 2^LogMantissaBits),
\* m a fixed-point mantissa in [1, 2): square, and emit 1 when the square
\* reaches 2.
RECURSIVE Log2Frac(_, _)
Log2Frac(m, bits) ==
    IF bits = 0 THEN 0
    ELSE LET one == Pow2(LogMantissaBits)
             sq  == (m * m) \div one
         IN  IF sq >= 2 * one
             THEN Pow2(bits - 1) + Log2Frac(sq \div 2, bits - 1)
             ELSE Log2Frac(sq, bits - 1)

\* The fixed-point mantissa n/d in [1, 2), n and d cut to 16 bits first.
RECURSIVE Mantissa(_, _)
Mantissa(n, d) ==
    IF d > 65535 THEN Mantissa(n \div 2, d \div 2)
    ELSE LET one == Pow2(LogMantissaBits)
             m == (n * one) \div d
         IN  IF m < one THEN one ELSE IF m >= 2 * one THEN 2 * one - 1 ELSE m

\* Math.log2: exact on powers of two, otherwise rounded down to a multiple of
\* 2^-LogBits.
Log2(x) ==
    IF IsNaN(x) \/ x[1] < 0 THEN NaN
    ELSE IF ~IsFinite(x) THEN PosInf
    ELSE IF x[1] = 0 THEN NegInf
    ELSE LET e == FloorLog2(x[1], x[2])
             n == IF e < 0 THEN x[1] * Pow2(-e) ELSE x[1]
             d == IF e > 0 THEN x[2] * Pow2(e) ELSE x[2]
         IN  Add(Num(e), Norm(Log2Frac(Mantissa(n, d), LogBits), Pow2(LogBits)))

\* Math.ceil(Math.log2(n)) for an integer n >= 1.
RECURSIVE CeilLog2(_)
CeilLog2(n) == IF n <= 1 THEN 0 ELSE 1 + CeilLog2((n + 1) \div 2)

\* The elements of a sequence given as a function, as a tuple.
Array(f) == SubSeq(f, 1, Len(f))

\* values.reduce((sum, val) => sum + val, 0)
RECURSIVE SumTo(_, _)
SumTo(values, n) == IF n = 0 THEN Num(0) ELSE Add(SumTo(values, n - 1), values[n])

Sum(values) == SumTo(values, Len(values))

\* ------------------------------------------------------------------------
\* Quads and windows
\* ------------------------------------------------------------------------
\* A quad is [predicate, termType, datatype, value]: the predicate IRI, the
\* object's term type, its datatype IRI (<<>> when the object carries none,
\* <<iri>> otherwise) and its lexical value.  A window (Set<Quad>) is the
\* sequence of its quads in iteration order.

Quad(p, tt, dt, v) == [predicate |-> p, termType |-> tt, datatype |-> dt, value |-> v]

XsdInteger == "http://www.w3.org/2001/XMLSchema#integer"
XsdDecimal == "http://www.w3.org/2001/XMLSchema#decimal"
XsdDouble == "http://www.w3.org/2001/XMLSchema#double"
XsdFloat == "http://www.w3.org/2001/XMLSchema#float"
XsdString == "http://www.w3.org/2001/XMLSchema#string"
XsdBoolean == "http://www.w3.org/2001/XMLSchema#boolean"
XsdLong == "http://www.w3.org/2001/XMLSchema#long"

\* datatypeValue.includes(word), for the datatype IRIs above.
Includes(datatypeValue, word) ==
    \/ datatypeValue = XsdInteger /\ word = "integer"
    \/ datatypeValue = XsdDecimal /\ word = "decimal"
    \/ datatypeValue = XsdDouble /\ word = "double"
    \/ datatypeValue = XsdFloat /\ word = "float"
    \/ datatypeValue = XsdString /\ word = "string"

\* parseFloat(objectValue): the number denoted by the longest numeric prefix
\* of the text, NaN when there is none.
parseFloat(objectValue) ==
    CASE objectValue = "0" -> Num(0)
      [] objectValue = "1" -> Num(1)
      [] objectValue = "2" -> Num(2)
      [] objectValue = "3" -> Num(3)
      [] objectValue = "4" -> Num(4)
      [] objectValue = "5" -> Num(5)
      [] objectValue = "7" -> Num(7)
      [] objectValue = "9" -> Num(9)
      [] objectValue = "10" -> Num(10)
      [] objectValue = "20" -> Num(20)
      [] objectValue = "25" -> Num(25)
      [] objectValue = "30" -> Num(30)
      [] objectValue = "-1" -> Num(-1)
      [] objectValue = "42.5" -> Frac(85, 2)
      [] objectValue = "12abc" -> Num(12)
      [] objectValue = "Infinity" -> PosInf
      [] objectValue = "-Infinity" -> NegInf
      [] OTHER -> NaN

\* Mutant of Harvest: every literal is parsed, whatever its datatype.
HarvestAnyLiteral(quad) ==
    IF quad.termType = "Literal"
    THEN LET numValue == parseFloat(quad.value)
         IN  IF ~IsNaN(numValue) THEN <<numValue>> ELSE <<>>
    ELSE <<>>

\* The numbers one quad contributes to numericValues (none or one).
Harvest(quad) ==
    IF quad.termType = "Literal"
    THEN IF quad.datatype # <<>>
         THEN LET datatypeValue == quad.datatype[1]
              IN  IF \/ Includes(datatypeValue, "integer")
                     \/ Includes(datatypeValue, "decimal")
                     \/ Includes(datatypeValue, "double")
                     \/ Includes(datatypeValue, "float")
                  THEN LET numValue == parseFloat(quad.value)
                       IN  IF ~IsNaN(numValue) THEN <<numValue>> ELSE <<>>
                  ELSE IF Includes(datatypeValue, "string")
                  THEN LET numValue == parseFloat(quad.value)
                       IN  IF ~IsNaN(numValue) THEN <<numValue>> ELSE <<>>
                  ELSE <<>>
         ELSE LET numValue == parseFloat(quad.value)
              IN  IF ~IsNaN(numValue) THEN <<numValue>> ELSE <<>>
    ELSE <<>>

\* numericValues after the loop over the window.
RECURSIVE NumericValues(_)
NumericValues(windowData) ==
    IF windowData = <<>> THEN <<>>
    ELSE NumericValues(SubSeq(windowData, 1, Len(windowData) - 1))
             \o Harvest(windowData[Len(windowData)])

calculateMean(values) ==
    IF Len(values) = 0 THEN Num(0)
    ELSE Div(Sum(values), Num(Len(values)))

\* Mutant of calculateVariance: the squared deviations are averaged over all
\* values, without the guard for short sequences.
calculateVarianceUnguarded(values) ==
    LET mean == calculateMean(values)
        squaredDiffs == [i \in 1..Len(values) |->
                            Mul(Sub(values[i], mean), Sub(values[i], mean))]
    IN  Div(Sum(squaredDiffs), Num(Len(values)))

\* Mutant of calculateVariance: the population variance (divided by n).
calculateVariancePopulation(values) ==
    IF Len(values) <= 1 THEN Num(0)
    ELSE LET mean == calculateMean(values)
             squaredDiffs == [i \in 1..Len(values) |->
                                 Mul(Sub(values[i], mean), Sub(values[i], mean))]
         IN  Div(Sum(squaredDiffs), Num(Len(values)))

calculateVariance(values) ==
    IF Len(values) <= 1 THEN Num(0)
    ELSE LET mean == calculateMean(values)
             squaredDiffs == [i \in 1..Len(values) |->
                                 Mul(Sub(values[i], mean), Sub(values[i], mean))]
         IN  Div(Sum(squaredDiffs), Num(Len(values) - 1))

\* Mutant of calculateSkewness: the cubed standardized values are averaged.
calculateSkewnessAveraging(values) ==
    IF Len(values) <= 2 THEN Num(0)
    ELSE LET mean == calculateMean(values)
             variance == calculateVariance(values)
             stdDev == Sqrt(variance)
         IN  IF stdDev = Num(0) THEN Num(0)
             ELSE LET z(i) == Div(Sub(values[i], mean), stdDev)
                      cubedDiffs == [i \in 1..Len(values) |-> Mul(Mul(z(i), z(i)), z(i))]
                      n == Len(values)
                  IN  Mul(Frac(n, (n - 1) * (n - 2)), Div(Sum(cubedDiffs), Num(n)))

calculateSkewness(values) ==
    IF Len(values) <= 2 THEN Num(0)
    ELSE LET mean == calculateMean(values)
             variance == calculateVariance(values)
             stdDev == Sqrt(variance)
         IN  IF stdDev = Num(0) THEN Num(0)
             ELSE LET z(i) == Div(Sub(values[i], mean), stdDev)
                      cubedDiffs == [i \in 1..Len(values) |-> Mul(Mul(z(i), z(i)), z(i))]
                      n == Len(values)
                  IN  Mul(Frac(n, (n - 1) * (n - 2)), Sum(cubedDiffs))

\* The keys of predicateCount, in insertion order.
RECURSIVE PredicateKeys(_)
PredicateKeys(quads) ==
    IF quads = <<>> THEN <<>>
    ELSE LET keys == PredicateKeys(SubSeq(quads, 1, Len(quads) - 1))
             p == quads[Len(quads)].predicate
         IN  IF \E i \in 1..Len(keys) : keys[i] = p THEN keys ELSE Append(keys, p)

\* predicateCount.get(predicate) after the counting loop.
PredicateCount(quads, predicate) ==
    Cardinality({i \in 1..Len(quads) : quads[i].predicate = predicate})

\* The loop `entropy -= probability * Math.log2(probability)` over a sequence
\* of probabilities, skipping those that are not > 0.
RECURSIVE ShannonEntropy(_)
ShannonEntropy(probabilities) ==
    IF probabilities = <<>> THEN Num(0)
    ELSE LET entropy == ShannonEntropy(SubSeq(probabilities, 1, Len(probabilities) - 1))
             prob == probabilities[Len(probabilities)]
         IN  IF Gt(prob, Num(0)) THEN Sub(entropy, Mul(prob, Log2(prob))) ELSE entropy

\* Mutant of calculateEntropy: only the triples that contribute a number are
\* counted.
calculateEntropyOfNumeric(quads) ==
    LET numeric == SelectSeq(quads, LAMBDA quad : Harvest(quad) # <<>>)
        keys == PredicateKeys(numeric)
        total == Len(numeric)
    IN  ShannonEntropy([i \in 1..Len(keys) |->
                           Div(Num(PredicateCount(numeric, keys[i])), Num(total))])

calculateEntropy(quads) ==
    LET keys == PredicateKeys(quads)
        total == Len(quads)
    IN  ShannonEntropy([i \in 1..Len(keys) |->
                           Div(Num(PredicateCount(quads, keys[i])), Num(total))])

\* Complex numbers are pairs <<re, im>> of numbers.
ComplexAdd(a, b) == <<Add(a[1], b[1]), Add(a[2], b[2])>>
ComplexSubtract(a, b) == <<Sub(a[1], b[1]), Sub(a[2], b[2])>>
ComplexMultiply(a, b) ==
    <<Sub(Mul(a[1], b[1]), Mul(a[2], b[2])), Add(Mul(a[1], b[2]), Mul(a[2], b[1]))>>

\* The twiddle factor e^(-2 pi i k / N) of the transform, for N in {2, 4, 8}
\* and 0 <= k < N/2 (cos and sin of a multiple of pi/4).
Exponent(k, N) ==
    LET octant == (8 * k) \div N
        h == Sqrt(Frac(1, 2))
    IN  CASE octant = 0 -> <<Num(1), Num(0)>>
          [] octant = 1 -> <<h, Neg(h)>>
          [] octant = 2 -> <<Num(0), Num(-1)>>
          [] octant = 3 -> <<Neg(h), Neg(h)>>

Evens(vector) == [i \in 1..(Len(vector) \div 2) |-> vector[2 * i - 1]]
Odds(vector) == [i \in 1..(Len(vector) \div 2) |-> vector[2 * i]]

\* fft.fft(vector): the radix-2 decimation-in-time transform of a real vector
\* whose length is a power of two, as a sequence of complex bins.
RECURSIVE Fft(_)
Fft(vector) ==
    IF Len(vector) = 1 THEN << <<vector[1], Num(0)>> >>
    ELSE LET N == Len(vector)
             X_evens == Fft(Evens(vector))
             X_odds == Fft(Odds(vector))
             e(k) == ComplexMultiply(Exponent(k, N), X_odds[k + 1])
         IN  [j \in 1..N |->
                 IF j <= N \div 2
                 THEN ComplexAdd(X_evens[j], e(j - 1))
                 ELSE ComplexSubtract(X_evens[j - N \div 2], e(j - 1 - N \div 2))]

\* paddedValues: values followed by zeros up to the next power of two.
\* Mutant of PaddedValues: the values are cut to the power of two below.
PaddedValuesTruncating(values) ==
    LET targetLength == Pow2(CeilLog2(Len(values) + 1) - 1)
    IN  [i \in 1..targetLength |-> values[i]]

\* Mutant of PaddedValues: at least one zero is always appended.
PaddedValuesOneMore(values) ==
    LET targetLength == Pow2(CeilLog2(Len(values) + 1))
    IN  [i \in 1..targetLength |-> IF i <= Len(values) THEN values[i] ELSE Num(0)]

PaddedValues(values) ==
    LET targetLength == Pow2(CeilLog2(Len(values)))
    IN  [i \in 1..(IF Len(values) < targetLength THEN targetLength ELSE Len(values)) |->
            IF i <= Len(values) THEN values[i] ELSE Num(0)]

\* The magnitude spectrum of the padded values.
Magnitudes(values) ==
    LET fftResult == Fft(PaddedValues(values))
    IN  [i \in 1..Len(fftResult) |->
            Sqrt(Add(Mul(fftResult[i][1], fftResult[i][1]),
                     Mul(fftResult[i][2], fftResult[i][2])))]

\* The entropy loop without the test `prob > 0`.
RECURSIVE ShannonEntropyOfAll(_)
ShannonEntropyOfAll(probabilities) ==
    IF probabilities = <<>> THEN Num(0)
    ELSE LET prob == probabilities[Len(probabilities)]
         IN  Sub(ShannonEntropyOfAll(SubSeq(probabilities, 1, Len(probabilities) - 1)),
                 Mul(prob, Log2(prob)))

\* Mutant of calculateFFTEntropy: zero probabilities are not skipped.
calculateFFTEntropyOfAll(values) ==
    IF Len(values) = 0 THEN Num(0)
    ELSE IF Len(values) = 1 THEN Num(0)
    ELSE LET magnitudes == Magnitudes(values)
             totalMagnitude == Sum(magnitudes)
         IN  IF totalMagnitude = Num(0) THEN Num(0)
             ELSE ShannonEntropyOfAll([i \in 1..Len(magnitudes) |->
                                          Div(magnitudes[i], totalMagnitude)])

calculateFFTEntropy(values) ==
    IF Len(values) = 0 THEN Num(0)
    ELSE IF Len(values) = 1 THEN Num(0)
    ELSE LET magnitudes == Magnitudes(values)
             totalMagnitude == Sum(magnitudes)
         IN  IF totalMagnitude = Num(0) THEN Num(0)
             ELSE ShannonEntropy([i \in 1..Len(magnitudes) |->
                                     Div(magnitudes[i], totalMagnitude)])

\* Mutant of extractSignature: tripleCount counts the harvested numbers.
extractSignatureCountingNumbers(windowData) ==
    LET numericValues == NumericValues(windowData)
        tripleCount == Num(Len(numericValues))
    IN  [tripleCount |-> tripleCount,
         variance    |-> calculateVariance(numericValues),
         skewness    |-> calculateSkewness(numericValues),
         entropy     |-> calculateEntropy(windowData),
         fftEntropy  |-> calculateFFTEntropy(numericValues)]

extractSignature(windowData) ==
    LET tripleCount == Num(Len(windowData))
        numericValues == NumericValues(windowData)
    IN  [tripleCount |-> tripleCount,
         variance    |-> calculateVariance(numericValues),
         skewness    |-> calculateSkewness(numericValues),
         entropy     |-> calculateEntropy(windowData),
         fftEntropy  |-> calculateFFTEntropy(numericValues)]

\* The windows the specifications draw from: sequences of quads of QuadPool,
\* of at most MaxWindow quads in Spec, MaxSelectWindow in SpecSelect and
\* MaxOrderWindow in SpecOrder.
MaxWindow == 2
MaxSelectWindow == 3
MaxOrderWindow == 1

QuadPool ==
    { Quad("http://example.org/p1", "Literal", <<>>, "1"),
      Quad("http://example.org/p2", "Literal", <<XsdInteger>>, "0") }

WindowsOver(pool, n) == UNION {[1..k -> pool] : k \in 0..n}

Windows == WindowsOver(QuadPool, MaxWindow)

SelectWindows == WindowsOver(QuadPool, MaxSelectWindow)

OrderWindows == WindowsOver(QuadPool, MaxOrderWindow)

\* The quads of the windows handed to the extractor alone: literals with and
\* without datatype, with numeric and non-numeric text, and non-literals.
MaxExtractWindow == 2

P1 == "http://example.org/p1"
P2 == "http://example.org/p2"
P3 == "http://example.org/p3"
P4 == "http://example.org/p4"

Plain(p, v) == Quad(p, "Literal", <<>>, v)
Typed(p, dt, v) == Quad(p, "Literal", <<dt>>, v)

ExtractPool ==
    { Plain(P1, "1"), Typed(P1, XsdInteger, "3"), Typed(P2, XsdDecimal, "42.5"),
      Typed(P2, XsdString, "12abc"), Typed(P1, XsdString, "NaN"), Plain(P3, ""),
      Typed(P3, XsdBoolean, "1"), Typed(P1, XsdLong, "7"),
      Quad(P2, "BlankNode", <<>>, "5"), Typed(P1, XsdDouble, "Infinity"),
      Typed(P2, XsdFloat, "0") }

\* Windows of plain literals with the given texts, all with predicate p.
PlainWindow(p, texts) == [i \in 1..Len(texts) |-> Plain(p, texts[i])]

\* Windows with the given predicates, the objects all the plain literal "1".
PredicateWindow(predicates) == [i \in 1..Len(predicates) |-> Plain(predicates[i], "1")]

ExampleWindows ==
    { PlainWindow(P1, <<"10", "20", "30">>), PlainWindow(P1, <<"1", "2", "3", "4", "5">>),
      PlainWindow(P1, <<"25", "30">>), PlainWindow(P1, <<"0", "0", "0", "4">>),
      PlainWindow(P1, <<"0", "0", "0">>), PlainWindow(P1, <<"1", "1", "1">>),
      PlainWindow(P1, <<"1", "2", "9">>),
      PlainWindow(P1, <<"5", "5", "5", "5">>), PlainWindow(P1, <<"1", "7", "3", "9">>),
      PlainWindow(P1, <<"5", "5", "5">>), PlainWindow(P1, <<"3", "4", "3">>),
      PlainWindow(P1, <<"5", "5">>), PlainWindow(P1, <<"1", "-1">>),
      PredicateWindow(<<P1, P1, P2, P2>>), PredicateWindow(<<P1, P2, P3, P4>>),
      PredicateWindow(<<P1, P1, P1, P2>>) }

ExtractWindows == WindowsOver(ExtractPool, MaxExtractWindow) \cup ExampleWindows

\* extractSignature on a set of windows, computed once per window.
RECURSIVE TableOf(_)
TableOf(windows) ==
    IF windows = {} THEN <<>>
    ELSE LET w == CHOOSE x \in windows : TRUE
         IN  (w :> extractSignature(w)) @@ TableOf(windows \ {w})

SignatureTable == TableOf(Windows \cup SelectWindows)

\* this.signatureExtractor.extractSignature(windowData)
Signature(windowData) ==
    IF windowData \in DOMAIN SignatureTable THEN SignatureTable[windowData]
    ELSE extractSignature(windowData)

\* ------------------------------------------------------------------------
\* Approach configurations
\* ------------------------------------------------------------------------
\* `undefined`: a missing threshold, thresholds object, priority or result.
Undefined == <<>>

\* The threshold fields, in the order of minChecks / maxChecks.
FieldNames == <<"variance", "skewness", "entropy", "fftEntropy", "tripleCount">>

\* An ApproachThresholds object declaring the thresholds of function t (field
\* name -> number); the other fields are undefined.
Thresholds(t) ==
    [f \in {FieldNames[i] : i \in 1..Len(FieldNames)} |->
        IF f \in DOMAIN t THEN t[f] ELSE Undefined]

NoThresholds == Thresholds(<<>>)

ApproachConfig(n, m, M, p) ==
    [name |-> n, minThresholds |-> m, maxThresholds |-> M, priority |-> p]

\* minChecks / maxChecks: the declared (threshold, value) pairs of a
\* thresholds object, undefined thresholds left out.
Checks(thresholds, signature) ==
    IF thresholds = Undefined THEN <<>>
    ELSE LET all == [i \in 1..Len(FieldNames) |->
                        [threshold |-> thresholds[FieldNames[i]],
                         value |-> signature[FieldNames[i]]]]
         IN  SelectSeq(all, LAMBDA check : check.threshold # Undefined)

\* Mutant of MinSatisfied: a strict comparison.
MinSatisfiedStrict(check) == Gt(check.value, check.threshold)

\* check.value >= check.threshold, check.value <= check.threshold
MinSatisfied(check) == Ge(check.value, check.threshold)

MaxSatisfied(check) == Le(check.value, check.threshold)

\* The contribution of one min / max check to totalScore.
MinScore(check) ==
    IF MinSatisfied(check) THEN Num(1)
    ELSE MathMax(Num(0), Div(check.value, check.threshold))

MaxScore(check) ==
    IF MaxSatisfied(check) THEN Num(1)
    ELSE MathMax(Num(0), Div(check.threshold, check.value))

\* Mutant of Score: a rule without criteria scores 1.
ScoreDefaultOne(totalScore, criteriaCount) ==
    IF criteriaCount > 0 THEN Div(totalScore, Num(criteriaCount)) ELSE Num(1)

\* Mutant of Score: the total is divided by one more than the criteria.
ScoreOverOneMore(totalScore, criteriaCount) ==
    IF criteriaCount > 0 THEN Div(totalScore, Num(criteriaCount + 1)) ELSE Num(0)

\* score = criteriaCount > 0 ? totalScore / criteriaCount : 0
Score(totalScore, criteriaCount) ==
    IF criteriaCount > 0 THEN Div(totalScore, Num(criteriaCount)) ELSE Num(0)

evaluateApproach(signature, config) ==
    LET minChecks == Checks(config.minThresholds, signature)
        maxChecks == Checks(config.maxThresholds, signature)
        matches == /\ \A i \in 1..Len(minChecks) : MinSatisfied(minChecks[i])
                   /\ \A i \in 1..Len(maxChecks) : MaxSatisfied(maxChecks[i])
        totalScore == Add(Sum([i \in 1..Len(minChecks) |-> MinScore(minChecks[i])]),
                          Sum([i \in 1..Len(maxChecks) |-> MaxScore(maxChecks[i])]))
        criteriaCount == Len(minChecks) + Len(maxChecks)
    IN  [matches |-> matches, score |-> Score(totalScore, criteriaCount)]

\* Mutant of MinSpecificity: the threshold is always divided by value + 1.
MinSpecificityRelative(check) == Div(check.threshold, Add(check.value, Num(1)))

\* The contribution of one min / max check to specificityScore.
MinSpecificity(check) ==
    IF Gt(check.value, Num(0)) THEN Div(check.threshold, Add(check.value, Num(1)))
    ELSE check.threshold

MaxSpecificity(check) == Div(Num(1), Add(check.threshold, Num(1)))

calculateSpecificity(signature, config) ==
    LET minChecks == Checks(config.minThresholds, signature)
        maxChecks == Checks(config.maxThresholds, signature)
        specificityScore ==
            Add(Sum([i \in 1..Len(minChecks) |-> MinSpecificity(minChecks[i])]),
                Sum([i \in 1..Len(maxChecks) |-> MaxSpecificity(maxChecks[i])]))
        thresholdCount == Len(minChecks) + Len(maxChecks)
    IN  IF thresholdCount > 0 THEN Div(specificityScore, Num(thresholdCount))
        ELSE Num(0)

\* The tolerance of the sort comparator, 0.01 = SpecificityTieNum / SpecificityTieDen.
SpecificityTieNum == 1
SpecificityTieDen == 100

\* Mutant of CompareFn: a specificity gap of exactly 0.01 already decides.
CompareFnAtLeast(a, b) ==
    IF Ge(MathAbs(Sub(a.specificity, b.specificity)),
          Frac(SpecificityTieNum, SpecificityTieDen))
    THEN Sub(b.specificity, a.specificity)
    ELSE Num(b.priority - a.priority)

\* The comparator handed to approachEvaluations.sort.
CompareFn(a, b) ==
    IF Gt(MathAbs(Sub(a.specificity, b.specificity)),
          Frac(SpecificityTieNum, SpecificityTieDen))
    THEN Sub(b.specificity, a.specificity)
    ELSE Num(b.priority - a.priority)

\* Mutant of Before: a tie also puts a in front of b.
BeforeOrTied(a, b) == Le(CompareFn(a, b), Num(0))

\* Whether the sort sees comparefn(a, b) < 0 (a NaN result counts as 0).
Before(a, b) == Lt(CompareFn(a, b), Num(0))

\* Array.prototype.sort as the runtime performs it on an array of fewer than
\* 64 elements: the leading run is found (and reversed when it is strictly
\* descending), and the remaining elements are placed by binary insertion.
\* arr[1..idx-1] is a run; the length of the maximal run that starts it.
RECURSIVE RunLength(_, _, _)
RunLength(arr, isDescending, idx) ==
    IF idx > Len(arr) THEN Len(arr)
    ELSE IF isDescending # Before(arr[idx], arr[idx - 1]) THEN idx - 1
    ELSE RunLength(arr, isDescending, idx + 1)

Reverse(arr) == Array([i \in 1..Len(arr) |-> arr[Len(arr) + 1 - i]])

\* The insertion point (a count of elements that stay in front) of pivot in
\* the sorted prefix arr[left+1..right].
RECURSIVE InsertionPoint(_, _, _, _)
InsertionPoint(arr, pivot, left, right) ==
    IF left >= right THEN left
    ELSE LET mid == left + ((right - left) \div 2)
         IN  IF Before(pivot, arr[mid + 1])
             THEN InsertionPoint(arr, pivot, left, mid)
             ELSE InsertionPoint(arr, pivot, mid + 1, right)

\* arr[1..start] is sorted; insert the elements after it one by one.
RECURSIVE BinaryInsertionSort(_, _)
BinaryInsertionSort(arr, start) ==
    IF start >= Len(arr) THEN arr
    ELSE LET pivot == arr[start + 1]
             left == InsertionPoint(arr, pivot, 0, start)
         IN  BinaryInsertionSort(
                 SubSeq(arr, 1, left) \o <<pivot>> \o SubSeq(arr, left + 1, start)
                     \o SubSeq(arr, start + 2, Len(arr)),
                 start + 1)

Sort(arr) ==
    IF Len(arr) < 2 THEN arr
    ELSE LET isDescending == Before(arr[2], arr[1])
             runLength == RunLength(arr, isDescending, 3)
             run == SubSeq(arr, 1, runLength)
             made == (IF isDescending THEN Reverse(run) ELSE run)
                         \o SubSeq(arr, runLength + 1, Len(arr))
         IN  BinaryInsertionSort(made, runLength)

\* Mutant of Recommend: the first matching approach in registry order is
\* recommended, without sorting.
RecommendFirstMatch(approachEvaluations) ==
    IF Len(approachEvaluations) > 0
    THEN [recommendedApproach |-> approachEvaluations[1].name,
          confidence |-> MathMin(approachEvaluations[1].score, Num(1))]
    ELSE [recommendedApproach |-> "default", confidence |-> Num(0)]

\* Mutant of Recommend: the specificity of the first evaluation, instead of
\* its score, becomes the confidence.
RecommendBySpecificity(approachEvaluations) ==
    IF Len(approachEvaluations) > 0
    THEN LET sorted == Sort(approachEvaluations)
         IN  [recommendedApproach |-> sorted[1].name,
              confidence |-> MathMin(sorted[1].specificity, Num(1))]
    ELSE [recommendedApproach |-> "default", confidence |-> Num(0)]

\* Mutant of Recommend: confidence initialised to 1 instead of 0.
RecommendInitOne(approachEvaluations) ==
    IF Len(approachEvaluations) > 0
    THEN LET sorted == Sort(approachEvaluations)
         IN  [recommendedApproach |-> sorted[1].name,
              confidence |-> MathMin(sorted[1].score, Num(1))]
    ELSE [recommendedApproach |-> "default", confidence |-> Num(1)]

\* recommendedApproach and confidence, from the evaluations of the matching
\* approaches in registry order.
Recommend(approachEvaluations) ==
    IF Len(approachEvaluations) > 0
    THEN LET sorted == Sort(approachEvaluations)
         IN  [recommendedApproach |-> sorted[1].name,
              confidence |-> MathMin(sorted[1].score, Num(1))]
    ELSE [recommendedApproach |-> "default", confidence |-> Num(0)]

\* The loop over this.approachConfigs: each configuration with its matchResult.
MatchResults(configs, signature) ==
    Array([i \in 1..Len(configs) |->
              [config |-> configs[i],
               matchResult |-> evaluateApproach(signature, configs[i])]])

\* The results with matchResult.matches, in registry order.
Matching(results) == SelectSeq(results, LAMBDA r : r.matchResult.matches)

\* Mutant of MatchingApproaches: the names are listed last match first.
MatchingApproachesReversed(matching) ==
    Array([i \in 1..Len(matching) |-> matching[Len(matching) + 1 - i].config.name])

MatchingApproaches(matching) ==
    Array([i \in 1..Len(matching) |-> matching[i].config.name])

ApproachEvaluations(matching, signature) ==
    Array([i \in 1..Len(matching) |->
              [name |-> matching[i].config.name,
               score |-> matching[i].matchResult.score,
               specificity |-> calculateSpecificity(signature, matching[i].config),
               priority |-> IF matching[i].config.priority = Undefined THEN 0
                            ELSE matching[i].config.priority[1]]])

\* The ApproachRecommendation returned.
Recommendation(recommendation, matchingApproaches, signature) ==
    [recommendedApproach |-> recommendation.recommendedApproach,
     matchingApproaches |-> matchingApproaches,
     signature |-> signature,
     confidence |-> recommendation.confidence]

RecommendationOf(matching, signature) ==
    Recommendation(Recommend(ApproachEvaluations(matching, signature)),
                   MatchingApproaches(matching), signature)

RecommendationFor(configs, signature) ==
    RecommendationOf(Matching(MatchResults(configs, signature)), signature)

\* chooseApproach(windowData) on a registry `configs` (the entries of
\* this.approachConfigs in iteration order).
chooseApproach(configs, windowData) ==
    RecommendationFor(configs, Signature(windowData))

\* ------------------------------------------------------------------------
\* The registry (this.approachConfigs, a Map in insertion order)
\* ------------------------------------------------------------------------

Has(configs, name) == \E i \in 1..Len(configs) : configs[i].name = name

\* Mutant of MapSet: an existing key keeps its value.
MapSetKeepExisting(configs, approach) ==
    IF Has(configs, approach.name) THEN configs ELSE Append(configs, approach)

\* Mutant of MapSet: an existing key is moved to the end.
MapSetMovingToEnd(configs, approach) ==
    Append(SelectSeq(configs, LAMBDA config : config.name # approach.name), approach)

\* Map.prototype.set: replace the value of an existing key in place, append
\* a new key.
MapSet(configs, approach) ==
    IF Has(configs, approach.name)
    THEN [i \in 1..Len(configs) |->
             IF configs[i].name = approach.name THEN approach ELSE configs[i]]
    ELSE Append(configs, approach)

\* Mutant of MapDelete: the last entry is moved into the place of the
\* deleted one.
MapDeleteMovingLast(configs, name) ==
    IF Has(configs, name)
    THEN SubSeq([i \in 1..Len(configs) |->
                    IF configs[i].name = name THEN configs[Len(configs)] ELSE configs[i]],
                1, Len(configs) - 1)
    ELSE configs

\* Map.prototype.delete
MapDelete(configs, name) == SelectSeq(configs, LAMBDA config : config.name # name)

\* Map.prototype.get
MapGet(configs, name) ==
    IF Has(configs, name)
    THEN (CHOOSE config \in {configs[i] : i \in 1..Len(configs)} : config.name = name)
    ELSE Undefined

\* The registry after `new HiveScoutBee(approaches)`.
RECURSIVE constructor(_)
constructor(approaches) ==
    IF approaches = <<>> THEN <<>>
    ELSE MapSet(constructor(SubSeq(approaches, 1, Len(approaches) - 1)),
                approaches[Len(approaches)])

addApproach(configs, approach) == MapSet(configs, approach)

\* The registry after removeApproach, and the value it returns.
removeApproach(configs, approachName) ==
    [configs |-> MapDelete(configs, approachName), ret |-> Has(configs, approachName)]

getAvailableApproaches(configs) == [i \in 1..Len(configs) |-> configs[i].name]

getApproachConfig(configs, approachName) == MapGet(configs, approachName)

\* ------------------------------------------------------------------------
\* Bounded inputs
\* ------------------------------------------------------------------------

\* Longest constructor array of Spec and of SpecSelect.
MaxInit == 2
MaxSelectRules == 3

Names == {"A", "B", "default"}

\* Rule bodies (the name is filled in by Named).
NoneRule == ApproachConfig("", Undefined, Undefined, Undefined)
EmptyRule == ApproachConfig("", NoThresholds, NoThresholds, <<3>>)
MinCountTwo == ApproachConfig("", Thresholds("tripleCount" :> Num(2)), Undefined, Undefined)
MaxCount99 == ApproachConfig("", Undefined, Thresholds("tripleCount" :> Num(99)), Undefined)
MaxCount61 == ApproachConfig("", Undefined, Thresholds("tripleCount" :> Num(61)), <<1>>)
MinSkewZeroMaxCount61 ==
    ApproachConfig("", Thresholds("skewness" :> Num(0)), Thresholds("tripleCount" :> Num(61)), <<2>>)
MaxSkewLow == ApproachConfig("", Undefined, Thresholds("skewness" :> Frac(-3, 2)), <<1>>)
MaxSkewZero == ApproachConfig("", Undefined, Thresholds("skewness" :> Num(0)), <<2>>)
MaxVarZero == ApproachConfig("", Thresholds("tripleCount" :> Num(2)), Thresholds("variance" :> Num(0)), <<1>>)

Named(body, n) == [body EXCEPT !.name = n]

LifecycleBodies == {NoneRule, MinCountTwo, MaxVarZero}

SelectBodies ==
    { NoneRule, EmptyRule, MaxCount99, MaxCount61, MinSkewZeroMaxCount61,
      MaxSkewLow, MaxSkewZero }

OrderBodies == {NoneRule, EmptyRule, MaxCount61, MinSkewZeroMaxCount61}

ConfigPool == {Named(body, n) : body \in LifecycleBodies, n \in Names}

SelectNames == <<"A", "B", "C", "D">>

\* Constructor arrays of at most MaxSelectRules rules with bodies from
\* `pool`: the i-th rule is named SelectNames[i].
ArraysOver(pool) ==
    UNION { { [i \in 1..k |-> Named(bodies[i], SelectNames[i])] :
                bodies \in [1..k -> pool] } : k \in 0..MaxSelectRules }

SelectArrays == ArraysOver(SelectBodies)

OrderArrays == ArraysOver(OrderBodies)

\* ------------------------------------------------------------------------
\* The instance as a state machine
\* ------------------------------------------------------------------------

Call(op, arg, ret) == [op |-> op, arg |-> arg, ret |-> ret]

\* The history map after registering `approaches` in order.
RECURSIVE RegisteredBy(_)
RegisteredBy(approaches) ==
    IF approaches = <<>> THEN [n \in Names \cup {SelectNames[i] : i \in 1..Len(SelectNames)} |-> Undefined]
    ELSE [RegisteredBy(SubSeq(approaches, 1, Len(approaches) - 1))
              EXCEPT ![approaches[Len(approaches)].name] = approaches[Len(approaches)]]

\* new HiveScoutBee(approaches)
Constructed(approaches) ==
    /\ approachConfigs = constructor(approaches)
    /\ lastCall = Call("constructor", approaches, Undefined)
    /\ registered = RegisteredBy(approaches)
    /\ repeated = "no"

Construct(approaches) == Constructed(approaches) /\ log = Undefined

\* new HiveScoutBee(approaches) on an instance whose calls are logged.
ConstructObserved(approaches) ==
    Constructed(approaches) /\ log = <<Call("constructor", approaches, Undefined)>>

Init == \E approaches \in UNION {[1..k -> ConfigPool] : k \in 0..MaxInit} : Construct(approaches)

\* The history `repeated` after a chooseApproach call returning ret.
Repeated(windowData, ret) ==
    IF lastCall.op = "chooseApproach" /\ lastCall.arg = windowData
    THEN (IF lastCall.ret = ret THEN "same" ELSE "different")
    ELSE "no"

\* A call of `op` with argument `arg` returns `ret`.
Return(op, arg, ret) ==
    /\ lastCall' = Call(op, arg, ret)
    /\ repeated' = IF op = "chooseApproach" THEN Repeated(arg, ret) ELSE "no"
    /\ log' = IF log = Undefined THEN log ELSE Append(log, Call(op, arg, ret))

\* Mutant of ChooseApproach: the call leaves the registry in reverse order.
ChooseApproachReordering(windowData) ==
    /\ Return("chooseApproach", windowData, chooseApproach(approachConfigs, windowData))
    /\ approachConfigs' = Reverse(approachConfigs)
    /\ UNCHANGED registered

ChooseApproach(windowData) ==
    /\ Return("chooseApproach", windowData, chooseApproach(approachConfigs, windowData))
    /\ UNCHANGED <<approachConfigs, registered>>

AddApproach(approach) ==
    /\ approachConfigs' = addApproach(approachConfigs, approach)
    /\ Return("addApproach", approach, Undefined)
    /\ registered' = [registered EXCEPT ![approach.name] = approach]

RemoveApproach(approachName) ==
    /\ approachConfigs' = removeApproach(approachConfigs, approachName).configs
    /\ Return("removeApproach", approachName,
              removeApproach(approachConfigs, approachName).ret)
    /\ registered' = [registered EXCEPT ![approachName] = Undefined]

GetAvailableApproaches ==
    /\ Return("getAvailableApproaches", Undefined, getAvailableApproaches(approachConfigs))
    /\ UNCHANGED <<approachConfigs, registered>>

GetApproachConfig(approachName) ==
    /\ Return("getApproachConfig", approachName,
              getApproachConfig(approachConfigs, approachName))
    /\ UNCHANGED <<approachConfigs, registered>>

Next ==
    \/ \E windowData \in Windows : ChooseApproach(windowData)
    \/ \E approach \in ConfigPool : AddApproach(approach)
    \/ \E approachName \in Names : RemoveApproach(approachName)
    \/ GetAvailableApproaches
    \/ \E approachName \in Names : GetApproachConfig(approachName)

Spec == Init /\ [][Next]_vars

\* One selection: an instance is constructed from an array of rules and
\* chooseApproach is called on it once.
InitSelect == \E approaches \in SelectArrays : Construct(approaches)

NextSelect ==
    \E windowData \in SelectWindows :
        lastCall.op = "constructor" /\ ChooseApproach(windowData)

SpecSelect == InitSelect /\ [][NextSelect]_vars

\* One selection on an instance whose rules the comparator leaves tied,
\* orders in a cycle or orders in a chain.
InitOrder == \E approaches \in OrderArrays : Construct(approaches)

NextOrder ==
    \E windowData \in OrderWindows :
        lastCall.op = "constructor" /\ ChooseApproach(windowData)

SpecOrder == InitOrder /\ [][NextOrder]_vars

\* One extraction: the instance's SignatureExtractor is handed a window.
ExtractSignature(windowData) ==
    /\ Return("extractSignature", windowData, extractSignature(windowData))
    /\ UNCHANGED <<approachConfigs, registered>>

InitExtract == Construct(<<>>)

NextExtract ==
    \E windowData \in ExtractWindows :
        lastCall.op = "constructor" /\ ExtractSignature(windowData)

SpecExtract == InitExtract /\ [][NextExtract]_vars

\* A life of an observed instance: at most MaxLog - 1 calls after the
\* constructor, on the empty window.
MaxLog == 4

LifecyclePool ==
    { Named(NoneRule, "A"), Named(MinCountTwo, "A"), Named(MaxCount99, "B"),
      Named(MaxCount61, "B"), Named(NoneRule, "default") }

LifecycleNames == {config.name : config \in LifecyclePool}

LifecycleArrays ==
    { <<>>, <<Named(NoneRule, "A"), Named(MaxCount99, "B")>>,
      <<Named(MinCountTwo, "A"), Named(NoneRule, "default"), Named(NoneRule, "A")>> }

InitLifecycle == \E approaches \in LifecycleArrays : ConstructObserved(approaches)

NextLifecycle ==
    \/ Len(log) < MaxLog /\ ChooseApproach(<<>>)
    \/ \E approach \in LifecyclePool : Len(log) < MaxLog /\ AddApproach(approach)
    \/ \E approachName \in LifecycleNames : Len(log) < MaxLog /\ RemoveApproach(approachName)
    \/ Len(log) < MaxLog /\ GetAvailableApproaches

SpecLifecycle == InitLifecycle /\ [][NextLifecycle]_vars

\* One evaluation: the private evaluateApproach or calculateSpecificity is
\* applied to the signature extracted from a window and a rule.
EvaluateValues == {Num(-1), Num(0), Num(2)}

EvaluateFields == {"skewness", "tripleCount"}

EvaluateBodies ==
    {NoneRule, EmptyRule}
        \cup {ApproachConfig("", Thresholds(f :> v), Undefined, Undefined) :
                  f \in EvaluateFields, v \in EvaluateValues}
        \cup {ApproachConfig("", Undefined, Thresholds(f :> v), Undefined) :
                  f \in EvaluateFields, v \in EvaluateValues}
        \cup {ApproachConfig("", Thresholds("skewness" :> v), Thresholds("tripleCount" :> w), Undefined) :
                  v \in EvaluateValues, w \in EvaluateValues}

EvaluateApproach(signature, config) ==
    /\ Return("evaluateApproach", [signature |-> signature, config |-> config],
              evaluateApproach(signature, config))
    /\ UNCHANGED <<approachConfigs, registered>>

CalculateSpecificity(signature, config) ==
    /\ Return("calculateSpecificity", [signature |-> signature, config |-> config],
              calculateSpecificity(signature, config))
    /\ UNCHANGED <<approachConfigs, registered>>

InitEvaluate == Construct(<<>>)

NextEvaluate ==
    \/ \E signature \in {Signature(windowData) : windowData \in SelectWindows}, body \in EvaluateBodies :
           lastCall.op = "constructor" /\ EvaluateApproach(signature, Named(body, "A"))
    \/ \E signature \in {Signature(windowData) : windowData \in SelectWindows}, body \in EvaluateBodies :
           lastCall.op = "constructor" /\ CalculateSpecificity(signature, Named(body, "A"))

SpecEvaluate == InitEvaluate /\ [][NextEvaluate]_vars

\* ------------------------------------------------------------------------
\* Properties
\* ------------------------------------------------------------------------

FieldSet == {FieldNames[i] : i \in 1..Len(FieldNames)}

InSeq(x, seq) == \E i \in 1..Len(seq) : seq[i] = x

Elements(seq) == {seq[i] : i \in 1..Len(seq)}

Chosen == lastCall.op = "chooseApproach"

\* The thresholds a configuration declares.
DeclaresMin(config, f) ==
    config.minThresholds # Undefined /\ config.minThresholds[f] # Undefined

DeclaresMax(config, f) ==
    config.maxThresholds # Undefined /\ config.maxThresholds[f] # Undefined

DeclaresNothing(config) ==
    \A f \in FieldSet : ~DeclaresMin(config, f) /\ ~DeclaresMax(config, f)

\* Every declared threshold of config is satisfied by the signature.
ThresholdsSatisfied(config, signature) ==
    \A f \in FieldSet :
        /\ DeclaresMin(config, f) => Ge(signature[f], config.minThresholds[f])
        /\ DeclaresMax(config, f) => Le(signature[f], config.maxThresholds[f])

\* The registered configurations whose names chooseApproach returned as matching.
Matched == {config \in Elements(approachConfigs) : InSeq(config.name, lastCall.ret.matchingApproaches)}

C2_DefaultWhenNothingMatches ==
    (Chosen /\ \A config \in Elements(approachConfigs) :
                   ~ThresholdsSatisfied(config, Signature(lastCall.arg)))
        => /\ lastCall.ret.recommendedApproach = "default"
           /\ lastCall.ret.matchingApproaches = <<>>
           /\ lastCall.ret.confidence = Num(0)

\* C2 witness: a non-empty registry, none of whose rules matches the window.
C2_Witness ==
    /\ Chosen
    /\ Len(approachConfigs) >= 2
    /\ \A config \in Elements(approachConfigs) :
           ~ThresholdsSatisfied(config, Signature(lastCall.arg))
    /\ lastCall.ret.recommendedApproach = "default"

\* Specificity and priority of a registered rule for the window of the call.
SpecificityOf(config) == calculateSpecificity(Signature(lastCall.arg), config)

PriorityOf(config) == IF config.priority = Undefined THEN 0 ELSE config.priority[1]

SpecificityGap(a, b) == MathAbs(Sub(SpecificityOf(a), SpecificityOf(b)))

Tolerance == Frac(SpecificityTieNum, SpecificityTieDen)

\* Rule a declares thresholds on the same fields as rule b, each at least as
\* tight (max bounds <=, min bounds >=) and one strictly tighter.
Tighter(a, b) ==
    /\ \A f \in FieldSet :
           /\ DeclaresMin(a, f) <=> DeclaresMin(b, f)
           /\ DeclaresMax(a, f) <=> DeclaresMax(b, f)
           /\ DeclaresMin(a, f) => Ge(a.minThresholds[f], b.minThresholds[f])
           /\ DeclaresMax(a, f) => Le(a.maxThresholds[f], b.maxThresholds[f])
    /\ \E f \in FieldSet :
           \/ DeclaresMin(a, f) /\ Gt(a.minThresholds[f], b.minThresholds[f])
           \/ DeclaresMax(a, f) /\ Lt(a.maxThresholds[f], b.maxThresholds[f])

\* C3: when exactly two rules a and b match and a's thresholds are tighter
\* than b's on the same fields, chooseApproach recommends a whatever the
\* priorities, unless their specificity scores differ by less than 0.01.
C3_TighterRuleRecommended ==
    Chosen =>
        \A a, b \in Matched :
            (Matched = {a, b} /\ Tighter(a, b) /\ ~Lt(SpecificityGap(a, b), Tolerance))
                => lastCall.ret.recommendedApproach = a.name

\* C4: the recommended rule is ranked by specificity before priority: no
\* other matched rule has a specificity exceeding the recommended rule's by
\* 0.01 or more.
C4_NoMoreSpecificRuleMatched ==
    Chosen =>
        \A rec, other \in Matched :
            rec.name = lastCall.ret.recommendedApproach
                => ~Ge(Sub(SpecificityOf(other), SpecificityOf(rec)), Tolerance)

\* The rule of the pair {a, b} with the higher priority / specificity.
HigherPriority(a, b) == IF PriorityOf(a) > PriorityOf(b) THEN a ELSE b

MoreSpecific(a, b) == IF Gt(SpecificityOf(a), SpecificityOf(b)) THEN a ELSE b

TwoMatchedWithDifferentPriorities(a, b) ==
    a # b /\ Matched = {a, b} /\ PriorityOf(a) # PriorityOf(b)

C6_RegistryFollowsRegistrations ==
    [][/\ \A n \in Names : getApproachConfig(approachConfigs', n) = registered'[n]
       /\ lastCall'.op = "getApproachConfig"
              => lastCall'.ret = registered[lastCall'.arg]
       /\ lastCall'.op = "removeApproach"
              => lastCall'.ret = (registered[lastCall'.arg] # Undefined)]_vars

\* C6 witness: removeApproach returned true for a registered name, which is
\* absent afterwards while another rule is still registered.
C6_Witness ==
    /\ lastCall.op = "removeApproach"
    /\ lastCall.ret = TRUE
    /\ getApproachConfig(approachConfigs, lastCall.arg) = Undefined
    /\ approachConfigs # <<>>

\* The registries holding the configurations of approachConfigs in every
\* order of registration.
Reorderings ==
    {[i \in 1..Len(approachConfigs) |-> approachConfigs[p[i]]] :
        p \in Permutations(1..Len(approachConfigs))}

\* The entry of approachEvaluations for a matched configuration.
Evaluation(config) ==
    [name |-> config.name,
     score |-> evaluateApproach(Signature(lastCall.arg), config).score,
     specificity |-> SpecificityOf(config),
     priority |-> PriorityOf(config)]

\* Matched rule m is ordered before every other matched rule by the comparator.
BeforeEveryOther(m) ==
    \A other \in Matched \ {m} : Before(Evaluation(m), Evaluation(other))

\* C7 as stated: registries holding the same configurations in a different
\* order return, for the same window, the same recommendedApproach, the same
\* confidence and the same set of matchingApproaches.
C7_OrderIrrelevantOriginal ==
    Chosen =>
        \A configs \in Reorderings :
            LET other == chooseApproach(configs, lastCall.arg)
            IN  /\ other.recommendedApproach = lastCall.ret.recommendedApproach
                /\ other.confidence = lastCall.ret.confidence
                /\ Elements(other.matchingApproaches) = Elements(lastCall.ret.matchingApproaches)

\* C7 amended: registries holding the same configurations in a different
\* order return the same set of matchingApproaches; they return the same
\* recommendedApproach and confidence when no rule matches or when one
\* matched rule is ordered before every other matched rule by the comparator
\* (more specific by over 0.01, or within 0.01 and of higher priority).
C7_OrderIrrelevantAmended ==
    Chosen =>
        \A configs \in Reorderings :
            LET other == chooseApproach(configs, lastCall.arg)
            IN  /\ Elements(other.matchingApproaches) = Elements(lastCall.ret.matchingApproaches)
                /\ (Matched = {} \/ \E m \in Matched : BeforeEveryOther(m))
                       => /\ other.recommendedApproach = lastCall.ret.recommendedApproach
                          /\ other.confidence = lastCall.ret.confidence

\* C7 witness: three rules match, the one ordered before both others was
\* registered last and is recommended.
C7_Witness ==
    /\ Chosen
    /\ Len(lastCall.ret.matchingApproaches) = 3
    /\ \E m \in Matched :
           /\ BeforeEveryOther(m)
           /\ m.name = lastCall.ret.matchingApproaches[3]
           /\ m.name = lastCall.ret.recommendedApproach

C9_ConfidenceIsClampedScore ==
    Chosen =>
        /\ Ge(lastCall.ret.confidence, Num(0))
        /\ Le(lastCall.ret.confidence, Num(1))
        /\ lastCall.ret.matchingApproaches # <<>> =>
               lastCall.ret.confidence =
                   MathMin(evaluateApproach(Signature(lastCall.arg),
                               MapGet(approachConfigs, lastCall.ret.recommendedApproach)).score,
                           Num(1))

\* C9 witness: of several matched rules, one that declares thresholds is
\* recommended with confidence 1.
C9_Witness ==
    /\ Chosen
    /\ Len(lastCall.ret.matchingApproaches) >= 2
    /\ ~DeclaresNothing(MapGet(approachConfigs, lastCall.ret.recommendedApproach))
    /\ lastCall.ret.confidence = Num(1)

\* C10: a rule that declares no thresholds (minThresholds and maxThresholds
\* absent or empty) is in matchingApproaches for every window, has match
\* score 0, and when it is the only matched rule it is recommended with
\* confidence 0.
C10_NoThresholdsMatchesEverything ==
    Chosen =>
        \A config \in Elements(approachConfigs) :
            DeclaresNothing(config) =>
                /\ InSeq(config.name, lastCall.ret.matchingApproaches)
                /\ evaluateApproach(Signature(lastCall.arg), config).score = Num(0)
                /\ lastCall.ret.matchingApproaches = <<config.name>> =>
                       /\ lastCall.ret.recommendedApproach = config.name
                       /\ lastCall.ret.confidence = Num(0)

\* C10 witness: on a non-empty window a rule with empty threshold objects is
\* the only one of several registered rules that matches.
C10_Witness ==
    /\ Chosen
    /\ lastCall.arg # <<>>
    /\ Len(approachConfigs) >= 2
    /\ \E config \in Elements(approachConfigs) :
           /\ config.minThresholds = NoThresholds
           /\ config.maxThresholds = NoThresholds
           /\ lastCall.ret.matchingApproaches = <<config.name>>
           /\ lastCall.ret.recommendedApproach = config.name

\* The signature all of whose fields are 0.
ZeroSignature == [f \in FieldSet |-> Num(0)]

\* C11: on the empty window chooseApproach returns confidence 0 unless some
\* registered rule declares at least one threshold and has all its thresholds
\* satisfied by the all-zero signature.
C11_EmptyWindowConfidence ==
    (Chosen /\ lastCall.arg = <<>>) =>
        \/ lastCall.ret.confidence = Num(0)
        \/ \E config \in Elements(approachConfigs) :
               ~DeclaresNothing(config) /\ ThresholdsSatisfied(config, ZeroSignature)

\* C11 witness: on the empty window a rule without thresholds and a rule
\* whose thresholds the all-zero signature fails are registered, and the
\* confidence is 0.
C11_Witness ==
    /\ Chosen
    /\ lastCall.arg = <<>>
    /\ lastCall.ret.confidence = Num(0)
    /\ lastCall.ret.matchingApproaches # <<>>
    /\ \E config \in Elements(approachConfigs) :
           ~DeclaresNothing(config) /\ ~ThresholdsSatisfied(config, ZeroSignature)

\* C12: for the empty window extractSignature returns tripleCount, variance,
\* skewness, entropy and fftEntropy all exactly 0 (not NaN), and
\* chooseApproach returns that same signature.
C12_EmptyWindowSignature ==
    (Chosen /\ lastCall.arg = <<>>) =>
        /\ extractSignature(<<>>) = ZeroSignature
        /\ lastCall.ret.signature = extractSignature(<<>>)

\* C12 witness: chooseApproach on the empty window, with rules registered,
\* returned the all-zero signature.
C12_Witness ==
    /\ Chosen
    /\ lastCall.arg = <<>>
    /\ approachConfigs # <<>>
    /\ lastCall.ret.signature = ZeroSignature

\* The last call was extractSignature; the numbers it harvested.
Extracted == lastCall.op = "extractSignature"

Harvested == NumericValues(lastCall.arg)

\* C13: the tripleCount of the extracted signature is the number of triples
\* of the window, triples with non-literal or non-numeric objects included.
C13_TripleCountIsWindowSize ==
    Extracted => lastCall.ret.tripleCount = Num(Len(lastCall.arg))

\* C13 witness: a window of a non-literal and a non-numeric literal, from
\* which nothing is harvested, has tripleCount 2.
C13_Witness ==
    /\ Extracted
    /\ Harvested = <<>>
    /\ \E i, j \in 1..Len(lastCall.arg) :
           lastCall.arg[i].termType # "Literal" /\ lastCall.arg[j].termType = "Literal"
    /\ lastCall.ret.tripleCount = Num(2)

\* The datatype words that let a typed literal be parsed.
DatatypeWords == {"integer", "decimal", "double", "float", "string"}

\* A literal whose datatype is absent or contains one of the words.
Eligible(quad) ==
    /\ quad.termType = "Literal"
    /\ \/ quad.datatype = <<>>
       \/ \E word \in DatatypeWords : Includes(quad.datatype[1], word)

\* C14: a triple contributes to the harvested sequence only if its object is
\* a literal whose datatype is absent or contains "integer", "decimal",
\* "double", "float" or "string"; any other triple contributes nothing, even
\* when its text is numeric.
C14_OnlyEligibleLiteralsHarvested ==
    Extracted =>
        /\ \A i \in 1..Len(lastCall.arg) :
               ~Eligible(lastCall.arg[i]) => Harvest(lastCall.arg[i]) = <<>>
        /\ Harvested = NumericValues(SelectSeq(lastCall.arg, Eligible))

\* C14 witness: of two triples with numeric text, one with another datatype
\* or a non-literal object, only the other is harvested.
C14_Witness ==
    /\ Extracted
    /\ Len(lastCall.arg) = 2
    /\ \A i \in 1..2 : ~IsNaN(parseFloat(lastCall.arg[i].value))
    /\ \E i \in 1..2 : ~Eligible(lastCall.arg[i])
    /\ Len(Harvested) = 1

\* The window without the literals whose text does not parse as a finite number.
FiniteTexts(windowData) ==
    SelectSeq(windowData, LAMBDA quad : IsFinite(parseFloat(quad.value)))

\* C15: every harvested value is a finite number; a literal whose text does
\* not parse as a finite number is dropped and changes neither variance,
\* skewness nor fftEntropy.
C15_HarvestedValuesFinite ==
    Extracted =>
        /\ \A i \in 1..Len(Harvested) : IsFinite(Harvested[i])
        /\ LET kept == extractSignature(FiniteTexts(lastCall.arg))
           IN  /\ lastCall.ret.variance = kept.variance
               /\ lastCall.ret.skewness = kept.skewness
               /\ lastCall.ret.fftEntropy = kept.fftEntropy

\* Sums over the indices 1..n of a sequence of numbers.
RECURSIVE SumOfPowers(_, _, _)
SumOfPowers(values, n, power) ==
    IF n = 0 THEN Num(0)
    ELSE Add(SumOfPowers(values, n - 1, power),
             IF power = 1 THEN values[n] ELSE Mul(values[n], values[n]))

\* The sample variance (sum of squares - square of sum / n) / (n - 1).
SampleVariance(values) ==
    LET n == Len(values)
        sum == SumOfPowers(values, n, 1)
    IN  Div(Sub(SumOfPowers(values, n, 2), Div(Mul(sum, sum), Num(n))), Num(n - 1))

\* C16: variance is the sample variance of the harvested numbers (squared
\* deviations from the mean summed and divided by n-1), 0 when fewer than 2
\* numbers were harvested, never negative; it is 100 for [10,20,30], 2.5 for
\* [1,2,3,4,5] and 12.5 for [25,30].
C16_VarianceIsSampleVariance ==
    Extracted =>
        /\ Len(Harvested) < 2 => lastCall.ret.variance = Num(0)
        /\ Len(Harvested) >= 2 => lastCall.ret.variance = SampleVariance(Harvested)
        /\ ~Lt(lastCall.ret.variance, Num(0))
        /\ lastCall.arg = PlainWindow(P1, <<"10", "20", "30">>)
               => lastCall.ret.variance = Num(100)
        /\ lastCall.arg = PlainWindow(P1, <<"1", "2", "3", "4", "5">>)
               => lastCall.ret.variance = Frac(5, 2)
        /\ lastCall.arg = PlainWindow(P1, <<"25", "30">>)
               => lastCall.ret.variance = Frac(25, 2)

\* C16 witness: the window of the values 25 and 30 has variance 12.5.
C16_Witness ==
    /\ Extracted
    /\ Harvested = <<Num(25), Num(30)>>
    /\ lastCall.ret.variance = Frac(25, 2)

\* The standardized values ((x - mean) / stddev), cubed and summed over the
\* indices 1..n.
RECURSIVE CubedStandardizedSum(_, _, _, _)
CubedStandardizedSum(values, n, mean, stdDev) ==
    IF n = 0 THEN Num(0)
    ELSE LET z == Div(Sub(values[n], mean), stdDev)
         IN  Add(CubedStandardizedSum(values, n - 1, mean, stdDev), Mul(z, Mul(z, z)))

Mean(values) == Div(SumOfPowers(values, Len(values), 1), Num(Len(values)))

StdDev(values) == Sqrt(SampleVariance(values))

SkewnessScale(n) == Frac(n, (n - 1) * (n - 2))

SkewnessIsZero(values) == Len(values) < 3 \/ StdDev(values) = Num(0)

\* C17 as stated: skewness is 0 for fewer than 3 numbers or a standard
\* deviation of 0, otherwise n/((n-1)(n-2)) times the average of the cubed
\* standardized values.
C17_SkewnessOriginal ==
    Extracted =>
        lastCall.ret.skewness =
            IF SkewnessIsZero(Harvested) THEN Num(0)
            ELSE Mul(SkewnessScale(Len(Harvested)),
                     Div(CubedStandardizedSum(Harvested, Len(Harvested),
                                              Mean(Harvested), StdDev(Harvested)),
                         Num(Len(Harvested))))

\* C17 amended: skewness is 0 for fewer than 3 numbers or a standard
\* deviation of 0, otherwise n/((n-1)(n-2)) times the sum of the cubed
\* standardized values.
C17_SkewnessAmended ==
    Extracted =>
        lastCall.ret.skewness =
            IF SkewnessIsZero(Harvested) THEN Num(0)
            ELSE Mul(SkewnessScale(Len(Harvested)),
                     CubedStandardizedSum(Harvested, Len(Harvested),
                                          Mean(Harvested), StdDev(Harvested)))

\* C17 witness: the values 0, 0, 0, 4 (mean 1, standard deviation 2) have
\* skewness 4/6 * 3 = 2.
C17_Witness ==
    /\ Extracted
    /\ Harvested = <<Num(0), Num(0), Num(0), Num(4)>>
    /\ lastCall.ret.skewness = Num(2)

\* The predicates of a window and the number of triples of each.
Predicates(windowData) == {windowData[i].predicate : i \in 1..Len(windowData)}

Triples(windowData, predicate) ==
    Cardinality({i \in 1..Len(windowData) : windowData[i].predicate = predicate})

\* Sum of p * log2(p), p = triples of the predicate / triples of the window,
\* over a set of predicates.
RECURSIVE PLogP(_, _)
PLogP(windowData, predicates) ==
    IF predicates = {} THEN Num(0)
    ELSE LET predicate == CHOOSE x \in predicates : TRUE
             p == Frac(Triples(windowData, predicate), Len(windowData))
         IN  Add(Mul(p, Log2(p)), PLogP(windowData, predicates \ {predicate}))

\* The triples of the window are evenly split across the predicates.
EvenlySplit(windowData) ==
    \A p, q \in Predicates(windowData) : Triples(windowData, p) = Triples(windowData, q)

\* C18: entropy is the base-2 Shannon entropy of the predicate frequencies
\* over all triples of the window (p = count of the predicate / tripleCount):
\* 0 with at most one distinct predicate, k when the triples are evenly split
\* across 2^k distinct predicates.
C18_EntropyOverAllTriples ==
    Extracted =>
        /\ lastCall.ret.entropy = Neg(PLogP(lastCall.arg, Predicates(lastCall.arg)))
        /\ Cardinality(Predicates(lastCall.arg)) <= 1 => lastCall.ret.entropy = Num(0)
        /\ \A k \in 0..2 :
               /\ Cardinality(Predicates(lastCall.arg)) = Pow2(k)
               /\ EvenlySplit(lastCall.arg)
               => lastCall.ret.entropy = Num(k)

\* C18 witness: a window of two triples with different predicates, one with
\* a non-literal object and one with a non-numeric literal, has entropy 1.
C18_Witness ==
    /\ Extracted
    /\ Len(lastCall.arg) = 2
    /\ Harvested = <<>>
    /\ \E i \in 1..2 : lastCall.arg[i].termType # "Literal"
    /\ Cardinality(Predicates(lastCall.arg)) = 2
    /\ lastCall.ret.entropy = Num(1)

\* C19: fftEntropy is exactly 0 whenever fewer than 2 numbers were harvested
\* and whenever all harvested numbers are zero (total spectral magnitude 0);
\* it is never negative, and never NaN when the harvested numbers are finite.
C19_FftEntropyZeroCases ==
    Extracted =>
        /\ Len(Harvested) < 2 => lastCall.ret.fftEntropy = Num(0)
        /\ (\A i \in 1..Len(Harvested) : Harvested[i] = Num(0))
               => lastCall.ret.fftEntropy = Num(0)
        /\ Len(Harvested) >= 2 =>
               ((Sum(Magnitudes(Harvested)) = Num(0))
                    <=> (\A i \in 1..Len(Harvested) : Harvested[i] = Num(0)))
        /\ ~Lt(lastCall.ret.fftEntropy, Num(0))
        /\ (\A i \in 1..Len(Harvested) : IsFinite(Harvested[i]))
               => ~IsNaN(lastCall.ret.fftEntropy)

\* C19 witness: three harvested zeros, padded to four, have total spectral
\* magnitude 0 and fftEntropy 0.
C19_Witness ==
    /\ Extracted
    /\ Harvested = <<Num(0), Num(0), Num(0)>>
    /\ Sum(Magnitudes(Harvested)) = Num(0)
    /\ lastCall.ret.fftEntropy = Num(0)

\* The sequence handed to the Fourier transform for the harvested values.
Padded == PaddedValues(Harvested)

\* L is the smallest power of two with L >= n.
SmallestPowerOfTwoFrom(L, n) ==
    /\ \E k \in 0..Len(Harvested) : L = Pow2(k)
    /\ L >= n
    /\ \A k \in 0..Len(Harvested) : Pow2(k) >= n => Pow2(k) >= L

\* C20: before the Fourier transform a harvested sequence of length n >= 2
\* is extended to the smallest power of two L >= n: the first n entries are
\* the harvested values in order, the remaining L - n entries are 0, nothing
\* is truncated, and a length that is a power of two is left unchanged.
C20_PaddedToNextPowerOfTwo ==
    Extracted /\ Len(Harvested) >= 2 =>
        /\ SmallestPowerOfTwoFrom(Len(Padded), Len(Harvested))
        /\ \A i \in 1..Len(Harvested) : Padded[i] = Harvested[i]
        /\ \A i \in (Len(Harvested) + 1)..Len(Padded) : Padded[i] = Num(0)
        /\ (\E k \in 1..Len(Harvested) : Len(Harvested) = Pow2(k))
               => Len(Padded) = Len(Harvested)

\* C20 witness: five harvested values are extended by three zeros to eight.
C20_Witness ==
    /\ Extracted
    /\ Len(Harvested) = 5
    /\ Len(Padded) = 8
    /\ \A i \in 6..8 : Padded[i] = Num(0)
    /\ Padded[5] = Harvested[5] /\ Harvested[5] # Num(0)

\* The registered configuration chooseApproach recommended.
Recommended == MapGet(approachConfigs, lastCall.ret.recommendedApproach)

C28_DefaultOnlyWhenNothingMatched ==
    Chosen =>
        /\ lastCall.ret.recommendedApproach = "default" =>
               lastCall.ret.matchingApproaches = <<>>
        /\ lastCall.ret.matchingApproaches # <<>> =>
               InSeq(lastCall.ret.recommendedApproach, lastCall.ret.matchingApproaches)

\* The registry `after` is the registry `before` with the entry at one
\* position, that of the name, taken out.
RemovedOnly(before, after, name) ==
    \E k \in 1..Len(before) :
        /\ before[k].name = name
        /\ after = SubSeq(before, 1, k - 1) \o SubSeq(before, k + 1, Len(before))

Constant(values) ==
    /\ values # <<>>
    /\ IsFinite(values[1])
    /\ values[1] # Num(0)
    /\ \A i \in 1..Len(values) : values[i] = values[1]

\* The frequency bins other than the DC bin all have magnitude 0.
EnergyInDcBin(values) ==
    \A i \in 2..Len(Magnitudes(values)) : Magnitudes(values)[i] = Num(0)

\* More than one frequency bin has a nonzero magnitude.
EnergySpread(values) ==
    Cardinality({i \in 1..Len(Magnitudes(values)) : Magnitudes(values)[i] # Num(0)}) > 1

PowerOfTwo(n) == \E k \in 0..n : n = Pow2(k)

\* C26 as stated: for every constant harvested sequence of length >= 2 all
\* spectral energy lies in the DC bin, and its fftEntropy is strictly less
\* than that of any non-constant sequence of the same length.
C26_ConstantOriginal ==
    (Extracted /\ Len(Harvested) >= 2 /\ Constant(Harvested)) =>
        /\ EnergyInDcBin(Harvested)
        /\ \A windowData \in ExtractWindows :
               /\ Len(NumericValues(windowData)) = Len(Harvested)
               /\ ~Constant(NumericValues(windowData))
               => Lt(lastCall.ret.fftEntropy, extractSignature(windowData).fftEntropy)

\* C26 amended: for a constant harvested sequence (finite) whose length is a power of
\* two >= 2 all spectral energy lies in the DC bin and fftEntropy is 0; any
\* sequence of length >= 2 whose energy is spread over more than one bin,
\* a constant sequence of another length included, has fftEntropy > 0.
C26_ConstantAmended ==
    (Extracted /\ Len(Harvested) >= 2) =>
        /\ Constant(Harvested) /\ PowerOfTwo(Len(Harvested)) =>
               /\ EnergyInDcBin(Harvested)
               /\ lastCall.ret.fftEntropy = Num(0)
        /\ Constant(Harvested) /\ ~PowerOfTwo(Len(Harvested)) => EnergySpread(Harvested)
        /\ (\A i \in 1..Len(Harvested) : IsFinite(Harvested[i])) /\ EnergySpread(Harvested) =>
               Gt(lastCall.ret.fftEntropy, Num(0))

\* C26 witness: the sequence 5, 5, 5, 5 has fftEntropy 0, less than that of
\* 1, 7, 3, 9.
C26_Witness ==
    /\ Extracted
    /\ Harvested = <<Num(5), Num(5), Num(5), Num(5)>>
    /\ lastCall.ret.fftEntropy = Num(0)
    /\ Gt(extractSignature(PlainWindow(P1, <<"1", "7", "3", "9">>)).fftEntropy, Num(0))

\* The contribution of the thresholds on field f to the match score.
ScoreOf(config, signature, f) ==
    Add(IF ~DeclaresMin(config, f) THEN Num(0)
        ELSE IF Ge(signature[f], config.minThresholds[f]) THEN Num(1)
        ELSE IF config.minThresholds[f] = Num(0) THEN Num(0)
        ELSE MathMax(Num(0), Div(signature[f], config.minThresholds[f])),
        IF ~DeclaresMax(config, f) THEN Num(0)
        ELSE IF Le(signature[f], config.maxThresholds[f]) THEN Num(1)
        ELSE IF signature[f] = Num(0) THEN Num(0)
        ELSE MathMax(Num(0), Div(config.maxThresholds[f], signature[f])))

\* The number of thresholds a configuration declares.
Declared(config) ==
    Cardinality({f \in FieldSet : DeclaresMin(config, f)})
        + Cardinality({f \in FieldSet : DeclaresMax(config, f)})

RECURSIVE ScoreTotal(_, _, _)
ScoreTotal(config, signature, fields) ==
    IF fields = {} THEN Num(0)
    ELSE LET f == CHOOSE x \in fields : TRUE
         IN  Add(ScoreOf(config, signature, f), ScoreTotal(config, signature, fields \ {f}))

Evaluated == lastCall.op = "evaluateApproach"

\* C23: for every rule and signature the match score of evaluateApproach
\* lies in [0, 1]: it is the average over the declared thresholds of 1 for a
\* satisfied threshold, max(0, value/threshold) for a violated min-threshold
\* (0 when the threshold is 0), max(0, threshold/value) for a violated
\* max-threshold (0 when the value is 0), and 0 when none is declared.
C23_ScoreInUnitInterval ==
    Evaluated =>
        /\ Ge(lastCall.ret.score, Num(0))
        /\ Le(lastCall.ret.score, Num(1))
        /\ lastCall.ret.score =
               IF Declared(lastCall.arg.config) = 0 THEN Num(0)
               ELSE Div(ScoreTotal(lastCall.arg.config, lastCall.arg.signature, FieldSet),
                        Num(Declared(lastCall.arg.config)))

\* The contribution of the thresholds on field f to the specificity.
SpecificityOfField(config, signature, f) ==
    Add(IF ~DeclaresMin(config, f) THEN Num(0)
        ELSE IF Gt(signature[f], Num(0))
        THEN Div(config.minThresholds[f], Add(signature[f], Num(1)))
        ELSE config.minThresholds[f],
        IF ~DeclaresMax(config, f) THEN Num(0)
        ELSE Recip(Add(config.maxThresholds[f], Num(1))))

RECURSIVE SpecificityTotal(_, _, _)
SpecificityTotal(config, signature, fields) ==
    IF fields = {} THEN Num(0)
    ELSE LET f == CHOOSE x \in fields : TRUE
         IN  Add(SpecificityOfField(config, signature, f),
                 SpecificityTotal(config, signature, fields \ {f}))

SpecificityComputed == lastCall.op = "calculateSpecificity"

Removed(name) ==
    \E i \in 1..Len(log) :
        /\ log[i].op = "removeApproach"
        /\ log[i].arg = name
        /\ log[i].ret = TRUE
        /\ \A j \in (i + 1)..Len(log) : log[j].op = "addApproach" => log[j].arg.name # name

\* The sequence has no duplicates and its elements follow the order of `of`.
Subsequence(seq, of) ==
    /\ \A i, j \in 1..Len(seq) : i # j => seq[i] # seq[j]
    /\ seq = SelectSeq(of, LAMBDA x : InSeq(x, seq))

RECURSIVE InsertionOrder(_)
InsertionOrder(calls) ==
    IF calls = <<>> THEN <<>>
    ELSE LET call == calls[Len(calls)]
             before == InsertionOrder(SubSeq(calls, 1, Len(calls) - 1))
         IN  IF call.op = "constructor"
             THEN IF call.arg = <<>> THEN <<>>
                  ELSE LET first == InsertionOrder(
                                        <<Call("constructor",
                                               SubSeq(call.arg, 1, Len(call.arg) - 1),
                                               Undefined)>>)
                           name == call.arg[Len(call.arg)].name
                       IN  IF InSeq(name, first) THEN first ELSE Append(first, name)
             ELSE IF call.op = "addApproach"
             THEN IF InSeq(call.arg.name, before) THEN before
                  ELSE Append(before, call.arg.name)
             ELSE IF call.op = "removeApproach"
             THEN SelectSeq(before, LAMBDA name : name # call.arg)
             ELSE before

\* C22: after any sequence of constructor, addApproach and removeApproach
\* calls getAvailableApproaches returns every registered name exactly once,
\* in the order of first insertion: adding a registered name replaces its
\* configuration without a second entry or a change of position, and a name
\* removed and added again is listed last.
C22_InsertionOrder ==
    /\ Array(getAvailableApproaches(approachConfigs)) = InsertionOrder(log)
    /\ \A i, j \in 1..Len(approachConfigs) :
           i # j => approachConfigs[i].name # approachConfigs[j].name
    /\ \A name \in LifecycleNames :
           getApproachConfig(approachConfigs, name) = registered[name]
    /\ lastCall.op = "getAvailableApproaches" =>
           Array(lastCall.ret) = InsertionOrder(log)

\* C22 witness: getAvailableApproaches lists last a name that was registered
\* first, removed and added again.
C22_Witness ==
    /\ lastCall.op = "getAvailableApproaches"
    /\ Len(lastCall.ret) >= 2
    /\ log[1].arg # <<>>
    /\ log[1].arg[1].name = lastCall.ret[Len(lastCall.ret)]
    /\ \E i, j \in 1..Len(log) :
           /\ i < j
           /\ log[i].op = "removeApproach"
           /\ log[i].ret = TRUE
           /\ log[i].arg = lastCall.ret[Len(lastCall.ret)]
           /\ log[j].op = "addApproach"
           /\ log[j].arg.name = log[i].arg

\* All matched rules have specificities within 0.01 of each other and the
\* same priority.
AllTied ==
    \A a, b \in Matched :
        /\ Le(SpecificityGap(a, b), Tolerance)
        /\ PriorityOf(a) = PriorityOf(b)

\* C30: when all matched rules have specificity scores within 0.01 of each
\* other and the same priority, chooseApproach recommends the one that comes
\* first in registry iteration order.
C30_TiesKeepRegistryOrder ==
    (Chosen /\ lastCall.ret.matchingApproaches # <<>> /\ AllTied) =>
        /\ lastCall.ret.recommendedApproach = lastCall.ret.matchingApproaches[1]
        /\ \E i \in 1..Len(approachConfigs) :
               /\ approachConfigs[i].name = lastCall.ret.recommendedApproach
               /\ \A j \in 1..(i - 1) : approachConfigs[j] \notin Matched

\* C30 witness: the first rule of the constructor array was removed and
\* registered again with the same configuration; all matched rules are tied,
\* and the recommendation is no longer the one the constructed registry gave.
C30_Witness ==
    /\ Chosen
    /\ Len(log) = 4
    /\ Len(log[1].arg) = 2
    /\ log[2].op = "removeApproach" /\ log[2].arg = log[1].arg[1].name
    /\ log[3].op = "addApproach" /\ log[3].arg = log[1].arg[1]
    /\ Len(lastCall.ret.matchingApproaches) = 2
    /\ AllTied
    /\ chooseApproach(constructor(log[1].arg), lastCall.arg).recommendedApproach
           = log[1].arg[1].name
    /\ lastCall.ret.recommendedApproach = log[1].arg[2].name

\* ---------------------------------------------------------------------
\* The statistics in binary floating point.  A JavaScript number is a
\* binary float: every +, -, * and / returns the nearest representable
\* number, ties to the even significand.  The model keeps FloatBits
\* significant bits instead of 53.
FloatBits == 8

\* The integer nearest to n/d, ties to even, for n >= 0 and d > 0.
NearestEven(n, d) ==
    IF 2 * (n % d) > d \/ (2 * (n % d) = d /\ (n \div d) % 2 = 1)
    THEN (n \div d) + 1
    ELSE n \div d

\* m * 2^(-shift) for the integer m.
Scaled(m, shift) ==
    IF shift >= 0 THEN Frac(m, Pow2(shift)) ELSE Num(m * Pow2(-shift))

\* The float nearest to the magnitude n/d whose leading bit has weight
\* 2^(FloatBits - 1 - shift).
RoundAt(n, d, shift) ==
    IF shift >= 0 THEN Scaled(NearestEven(n * Pow2(shift), d), shift)
    ELSE Scaled(NearestEven(n, d * Pow2(-shift)), shift)

\* The representable number nearest to x.
Round(x) ==
    IF ~IsFinite(x) \/ x[1] = 0 THEN x
    ELSE IF x[1] < 0
    THEN Neg(RoundAt(-x[1], x[2], FloatBits - 1 - FloorLog2(-x[1], x[2])))
    ELSE RoundAt(x[1], x[2], FloatBits - 1 - FloorLog2(x[1], x[2]))

\* values.reduce((sum, val) => sum + val, 0) over the first n values, each
\* addition rounded.
RECURSIVE FloatSumTo(_, _)
FloatSumTo(values, n) ==
    IF n = 0 THEN Num(0) ELSE Round(Add(FloatSumTo(values, n - 1), values[n]))

FloatMean(values) ==
    IF Len(values) = 0 THEN Num(0)
    ELSE Round(Div(FloatSumTo(values, Len(values)), Num(Len(values))))

\* Math.pow(val - mean, 2), the difference and the square each rounded.
FloatSquaredDiff(val, mean) ==
    Round(Mul(Round(Sub(val, mean)), Round(Sub(val, mean))))

FloatVariance(values) ==
    IF Len(values) <= 1 THEN Num(0)
    ELSE LET mean == FloatMean(values)
             squaredDiffs == Array([i \in 1..Len(values) |->
                                       FloatSquaredDiff(Round(values[i]), mean)])
         IN  Round(Div(FloatSumTo(squaredDiffs, Len(values)), Num(Len(values) - 1)))

\* Windows of plain literals on one predicate, in every iteration order.
MaxFloatWindow == 3

FloatWindows ==
    {PlainWindow(P1, texts) :
        texts \in UNION {[1..k -> {"0", "1", "2", "3", "7"}] : k \in 0..MaxFloatWindow}}

\* The variance extractSignature reports for a window, in floats.
CalculateVariance(windowData) ==
    /\ Return("calculateVariance", windowData,
              [tripleCount |-> Len(windowData),
               variance |-> FloatVariance(NumericValues(windowData))])
    /\ UNCHANGED <<approachConfigs, registered>>

InitFloat == Construct(<<>>)

NextFloat ==
    \E windowData \in FloatWindows :
        lastCall.op = "constructor" /\ CalculateVariance(windowData)

SpecFloat == InitFloat /\ [][NextFloat]_vars

\* Two windows hold the same triples: each quad occurs as often in one as
\* in the other.
Occurrences(windowData, quad) ==
    Cardinality({i \in 1..Len(windowData) : windowData[i] = quad})

SameTriples(a, b) ==
    /\ Len(a) = Len(b)
    /\ \A i \in 1..Len(a) : Occurrences(a, a[i]) = Occurrences(b, a[i])

\* C25: two windows holding the same triples in a different iteration
\* order get the same tripleCount and the same variance.
C25_OrderIndependent ==
    lastCall.op = "calculateVariance" =>
        \A windowData \in FloatWindows :
            SameTriples(windowData, lastCall.arg) =>
                /\ Len(windowData) = lastCall.ret.tripleCount
                /\ FloatVariance(NumericValues(windowData)) = lastCall.ret.variance


====
